---- MODULE Spec2Model ----
(***************************************************************************)
(* Model of pkg/cmd/secret/create/http.go: decoding of the recipient       *)
(* public key (NewPubKey), the batched repository name -> ID lookup        *)
(* (mapRepoNameToID), and the secret write (putOrgSecret, putRepoSecret,   *)
(* putSecret).                                                             *)
(*                                                                         *)
(* Four specifications share the variables:                                *)
(*   SpecKey      NewPubKey applied to one encoded key                     *)
(*   SpecResolve  mapRepoNameToID applied to one lookup response           *)
(*   Spec         one invocation of putOrgSecret / putRepoSecret           *)
(*   SpecWrite    repeated putSecret calls against the remote store        *)
(***************************************************************************)
EXTENDS Integers, Sequences, FiniteSets, TLC

VARIABLES
    \* --- NewPubKey ---
    rawKey,       \* the bytes the server encoded (ground truth of the input)
    keyForm,      \* how the encoded string was formed from rawKey
    encodedKey,   \* NewPubKey's argument encodedKey (sequence of characters)
    keyID,        \* NewPubKey's argument keyID
    pkOut,        \* what NewPubKey returned (or that it panicked)
    \* --- mapRepoNameToID ---
    rOrg,         \* argument orgName
    rNames,       \* argument repositoryNames
    rResp,        \* what client.GraphQL produced: err and graphqlResult
    rOut,         \* what mapRepoNameToID returned (or that it panicked)
    \* --- putOrgSecret / putRepoSecret ---
    pc,           \* position of the invocation
    call,         \* the invocation's arguments
    repositoryIDs,\* putOrgSecret's local repositoryIDs
    requests,     \* requests sent by this invocation, in order
    ret,          \* the invocation's return value
    \* --- putSecret against the remote store ---
    store,        \* remote secret store: (host, path) -> stored body
    wLast         \* the last putSecret call: arguments, outcome, store before

keyVars == <<rawKey, keyForm, encodedKey, keyID, pkOut>>
resolveVars == <<rOrg, rNames, rResp, rOut>>
invVars == <<pc, call, repositoryIDs, requests, ret>>
writeVars == <<store, wLast>>
vars == <<keyVars, resolveVars, invVars, writeVars>>

\* Go's error values: nil, and fmt.Errorf(format, args...) with the error it
\* wraps (%w), if any.  args are the strings the format's verbs print.
NoErr == [fmt |-> "<nil>"]

Errorf(format, args, cause) == [fmt |-> format, args |-> args, cause |-> cause]

\* Go's slices of int: the nil slice, and a slice holding elems (an empty
\* slice made by make is not nil).
NilSlice == [nil |-> TRUE, elems |-> <<>>]

Slice(elems) == [nil |-> FALSE, elems |-> elems]

(***************************************************************************)
(* encoding/base64, StdEncoding: the standard alphabet, '=' padding,       *)
(* non-strict, '\r' and '\n' ignored.                                      *)
(***************************************************************************)
Alphabet ==
    << "A","B","C","D","E","F","G","H","I","J","K","L","M","N","O","P",
       "Q","R","S","T","U","V","W","X","Y","Z","a","b","c","d","e","f",
       "g","h","i","j","k","l","m","n","o","p","q","r","s","t","u","v",
       "w","x","y","z","0","1","2","3","4","5","6","7","8","9","+","/" >>

AlphabetSet == {Alphabet[i] : i \in 1..64}

PadChar == "="

NewLines == {"\n", "\r"}

\* decodeMap: the 6-bit value of an alphabet character; padding counts as 0
\* when the last quantum is assembled.
Sextet(c) == IF c \in AlphabetSet THEN (CHOOSE i \in 1..64 : Alphabet[i] = c) - 1 ELSE 0

\* EncodeToString: 3 bytes -> 4 characters, the last quantum padded.
EncodeToString(bytes) ==
    LET n == Len(bytes)
        q == (n + 2) \div 3
        B(i) == IF i <= n THEN bytes[i] ELSE 0
        Val(k) == B(3*k + 1) * 65536 + B(3*k + 2) * 256 + B(3*k + 3)
        Ch(k, j) ==
            LET v == (Val(k) \div (2 ^ (6 * (3 - j)))) % 64
            IN  IF 3*k + j > n /\ j >= 2 THEN PadChar ELSE Alphabet[v + 1]
    IN  [p \in 1..(4 * q) |-> Ch((p - 1) \div 4, (p - 1) % 4)]

\* DecodedLen: the size of the buffer DecodeString allocates, from the
\* length of the input as given (ignored characters included).
DecodedLen(n) == (n \div 4) * 3

\* DecodeString: dbuf := make([]byte, DecodedLen(len(s))); n, err := Decode(dbuf, s);
\* return dbuf[:n], err.  The result keeps the whole buffer (buf), of which
\* the slice shows the first n bytes; bytes past n are the zeros of make.
DecodeString(s) ==
    LET t == SelectSeq(s, LAMBDA c : c \notin NewLines)
        L == Len(t)
        wellFormed ==
            /\ L % 4 = 0
            /\ \A i \in 1..L :
                  \/ t[i] \in AlphabetSet
                  \/ /\ t[i] = PadChar
                     /\ i >= L - 1
                     /\ i = L - 1 => t[L] = PadChar
        pads == Cardinality({i \in 1..L : t[i] = PadChar})
        n == 3 * (L \div 4) - pads
        Val(k) == Sextet(t[4*k + 1]) * 262144 + Sextet(t[4*k + 2]) * 4096
                    + Sextet(t[4*k + 3]) * 64 + Sextet(t[4*k + 4])
        Byte(i) ==
            LET k == (i - 1) \div 3
                j == (i - 1) % 3
            IN  (Val(k) \div (2 ^ (8 * (2 - j)))) % 256
    IN  IF wellFormed
        THEN [err |-> NoErr, n |-> n,
              buf |-> [i \in 1..DecodedLen(Len(s)) |-> IF i <= n THEN Byte(i) ELSE 0]]
        ELSE [err |-> Errorf("illegal base64 data", <<>>, NoErr), n |-> 0, buf |-> <<>>]

(***************************************************************************)
(* NewPubKey (http.go 33-46).                                              *)
(***************************************************************************)
KeyLen == 32

NoPubKey == [kind |-> "none", Key |-> <<>>, ID |-> "", encoded |-> <<>>, err |-> NoErr]

\* NewPubKey with the copy taken one byte late (pk[1:33]).
NewPubKeyShifted(encKey, id) ==
    LET pk == DecodeString(encKey)
    IN  IF pk.err # NoErr
        THEN [NoPubKey EXCEPT !.kind = "error",
                 !.err = Errorf("failed to decode public key: %w", <<>>, pk.err)]
        ELSE IF Len(pk.buf) < KeyLen + 1
        THEN [NoPubKey EXCEPT !.kind = "panic",
                 !.err = Errorf("slice bounds out of range", <<>>, NoErr)]
        ELSE [kind |-> "ok", Key |-> [i \in 1..KeyLen |-> pk.buf[i + 1]],
              ID |-> id, encoded |-> encKey, err |-> NoErr]

\* pk[0:32] re-slices pk up to its capacity, the size of the decode buffer:
\* it panics when the buffer is shorter than 32 bytes and otherwise shows the
\* decoded bytes followed by the buffer's zeros.  copy then fills all of pka.
NewPubKey(encKey, id) ==
    LET pk == DecodeString(encKey)
    IN  IF pk.err # NoErr
        THEN [NoPubKey EXCEPT !.kind = "error",
                 !.err = Errorf("failed to decode public key: %w", <<>>, pk.err)]
        ELSE IF Len(pk.buf) < KeyLen
        THEN [NoPubKey EXCEPT !.kind = "panic",
                 !.err = Errorf("slice bounds out of range", <<>>, NoErr)]
        ELSE [kind |-> "ok", Key |-> [i \in 1..KeyLen |-> pk.buf[i]],
              ID |-> id, encoded |-> encKey, err |-> NoErr]

\* (*PubKey).String
String(pk) == pk.encoded

(***************************************************************************)
(* Inputs of SpecKey: keys of 0..MaxKeyBytes bytes as the server would     *)
(* encode them, and strings formed from those encodings.                   *)
(***************************************************************************)
MaxKeyBytes == 34

BytePatterns == {<<0, 255>>, <<7, 1>>, <<85, 3>>}

RawKeys == {[i \in 1..n |-> (p[1] * i + p[2]) % 256] : n \in 0..MaxKeyBytes, p \in BytePatterns}

KeyIDs == {"key-1", "key-2"}

\* 44 ignored characters: enough for a decode buffer of at least 33 bytes.
LineBreaks == [i \in 1..44 |-> "\n"]

KeyForms == {"canonical", "line-wrapped", "trailing-bits", "line-breaks-appended",
             "truncated", "foreign-character"}

ValidKeyForms == {"canonical", "line-wrapped", "trailing-bits", "line-breaks-appended"}

FormKey(form, bytes) ==
    LET e == EncodeToString(bytes)
        L == Len(e)
    IN  CASE form = "canonical" -> e
          [] form = "line-wrapped" ->
                IF L >= 4 THEN SubSeq(e, 1, 4) \o <<"\r", "\n">> \o SubSeq(e, 5, L)
                ELSE e \o <<"\n">>
          [] form = "trailing-bits" ->
                \* the unused low bits of the last character before the padding set
                IF L > 0 /\ e[L] = PadChar
                THEN LET p == IF e[L - 1] = PadChar THEN L - 2 ELSE L - 1
                     IN  [e EXCEPT ![p] = Alphabet[Sextet(e[p]) + 2]]
                ELSE e
          [] form = "line-breaks-appended" -> e \o LineBreaks
          [] form = "truncated" -> IF L > 0 THEN SubSeq(e, 1, L - 1) ELSE <<"A">>
          [] form = "foreign-character" -> <<"!">> \o e

KeyInit ==
    /\ rawKey \in RawKeys
    /\ keyForm \in KeyForms
    /\ encodedKey = FormKey(keyForm, rawKey)
    /\ keyID \in KeyIDs
    /\ pkOut = NoPubKey

CallNewPubKey ==
    /\ pkOut.kind = "none"
    /\ pkOut' = NewPubKey(encodedKey, keyID)
    /\ UNCHANGED <<rawKey, keyForm, encodedKey, keyID, resolveVars, invVars, writeVars>>

(***************************************************************************)
(* mapRepoNameToID (http.go 117-154).                                      *)
(***************************************************************************)
\* The batched query: one aliased sub-query per requested name, the alias
\* being the repository name itself (http.go 118-127).
BuildQuery(orgName, repositoryNames) ==
    [i \in 1..Len(repositoryNames) |->
        [alias |-> repositoryNames[i], owner |-> orgName, name |-> repositoryNames[i]]]

Aliases(query) == {query[i].alias : i \in 1..Len(query)}

\* The element type of graphqlResult: a pointer to struct{DatabaseID int}.
NilPtr == [nil |-> TRUE, DatabaseID |-> 0]

Ptr(id) == [nil |-> FALSE, DatabaseID |-> id]

\* graphqlResult[repoName]: the pointer the map holds for the key, the nil
\* pointer when the key is missing (the zero value of the element type).
MapIndex(m, key) == IF key \in DOMAIN m THEN m[key] ELSE NilPtr

\* err.(*api.GraphQLErrorResponse)
IsGqlErr(err) == err # NoErr /\ err.fmt = "GraphQLErrorResponse"

lookupReturn(ids, err) == [kind |-> "return", ids |-> ids, err |-> err]

lookupPanic(why) == [kind |-> "panic", ids |-> NilSlice, err |-> Errorf(why, <<>>, NoErr)]

NoLookup == [kind |-> "none", ids |-> NilSlice, err |-> NoErr]

\* The positions of the NOT_FOUND entries of a structured error list.
NotFoundAt(errors) == {i \in 1..Len(errors) : errors[i].Type = "NOT_FOUND"}

\* The loop of http.go 149-151: one identifier per requested name, in the
\* order of the request; the field access through a nil pointer panics.
collectIDs(repositoryNames, data) ==
    IF \E i \in 1..Len(repositoryNames) : MapIndex(data, repositoryNames[i]).nil
    THEN lookupPanic("nil pointer dereference")
    ELSE lookupReturn(Slice([i \in 1..Len(repositoryNames) |->
                                MapIndex(data, repositoryNames[i]).DatabaseID]), NoErr)

\* mapRepoNameToID that keeps scanning and reports the last NOT_FOUND entry
\* of the list instead of returning on the first.
mapRepoNameToIDLastEntry(orgName, repositoryNames, resp) ==
    LET nf == IF IsGqlErr(resp.err) THEN NotFoundAt(resp.err.Errors) ELSE {}
    IN  IF nf # {}
        THEN LET ge == resp.err.Errors[CHOOSE i \in nf : \A j \in nf : j <= i]
             IN  lookupReturn(NilSlice, Errorf("could not find %s/%s",
                                               <<orgName, ge.Path[1]>>, NoErr))
        ELSE IF resp.err # NoErr
        THEN lookupReturn(NilSlice, Errorf("failed to look up repositories: %w",
                                           <<>>, resp.err))
        ELSE collectIDs(repositoryNames, resp.data)

\* mapRepoNameToID that tests err != nil before it scans the error list, so
\* that the generic failure masks the NOT_FOUND entries.
mapRepoNameToIDGenericFirst(orgName, repositoryNames, resp) ==
    IF resp.err # NoErr
    THEN lookupReturn(NilSlice, Errorf("failed to look up repositories: %w",
                                       <<>>, resp.err))
    ELSE collectIDs(repositoryNames, resp.data)

\* mapRepoNameToID that builds the result back to front.
mapRepoNameToIDReversed(orgName, repositoryNames, resp) ==
    LET nf == IF IsGqlErr(resp.err) THEN NotFoundAt(resp.err.Errors) ELSE {}
        n == Len(repositoryNames)
    IN  IF nf # {}
        THEN LET ge == resp.err.Errors[CHOOSE i \in nf : \A j \in nf : i <= j]
             IN  lookupReturn(NilSlice, Errorf("could not find %s/%s",
                                               <<orgName, ge.Path[1]>>, NoErr))
        ELSE IF resp.err # NoErr
        THEN lookupReturn(NilSlice, Errorf("failed to look up repositories: %w",
                                           <<>>, resp.err))
        ELSE collectIDs([i \in 1..n |-> repositoryNames[n + 1 - i]], resp.data)

\* resp is what client.GraphQL(host, query, nil, &graphqlResult) left behind:
\* resp.err its return value, resp.data the filled graphqlResult.
\*   - a GraphQLErrorResponse whose list holds a NOT_FOUND entry: return on
\*     the first such entry, naming ge.Path[0] (Path[1] here, 1-based);
\*   - any other non-nil err: the generic failure wrapping err;
\*   - err == nil: the identifiers collected from graphqlResult.
mapRepoNameToID(orgName, repositoryNames, resp) ==
    LET nf == IF IsGqlErr(resp.err) THEN NotFoundAt(resp.err.Errors) ELSE {}
    IN  IF nf # {}
        THEN LET ge == resp.err.Errors[CHOOSE i \in nf : \A j \in nf : i <= j]
             IN  IF Len(ge.Path) = 0
                 THEN lookupPanic("index out of range")
                 ELSE lookupReturn(NilSlice, Errorf("could not find %s/%s",
                                                    <<orgName, ge.Path[1]>>, NoErr))
        ELSE IF resp.err # NoErr
        THEN lookupReturn(NilSlice, Errorf("failed to look up repositories: %w",
                                           <<>>, resp.err))
        ELSE collectIDs(repositoryNames, resp.data)

(***************************************************************************)
(* The lookup's collaborator: what client.GraphQL can produce for a query. *)
(*   - err == nil with graphqlResult filled from the response's data: any  *)
(*     subset of the query's aliases, each with an identifier or null;     *)
(*   - a GraphQLErrorResponse with a non-empty error list; a NOT_FOUND     *)
(*     entry carries the alias it is about at the head of its path;        *)
(*   - any other error (network, authentication, server).                  *)
(* A query with no sub-query is not a GraphQL document (its selection set  *)
(* is empty), so the server answers it with an error and never with data.  *)
(***************************************************************************)
MaxNames == 3

MaxErrors == 2

RepoNames == {"a", "b", "c"}

OrgNames == {"acme", "octo"}

DatabaseIDs == {10, 20}

SeqsUpTo(S, n) == UNION {[1..k -> S] : k \in 0..n}

NameLists == SeqsUpTo(RepoNames, MaxNames)

ErrorEntries(aliases) ==
    {[Type |-> "NOT_FOUND", Path |-> <<a>>] : a \in aliases}
    \cup {[Type |-> ty, Path |-> <<a, "databaseId">>] : ty \in {"NOT_FOUND", "FORBIDDEN"}, a \in aliases}
    \cup {[Type |-> "FORBIDDEN", Path |-> <<>>]}

GqlErrors(aliases) ==
    {[fmt |-> "GraphQLErrorResponse", Errors |-> es] :
        es \in SeqsUpTo(ErrorEntries(aliases), MaxErrors) \ {<<>>}}

TransportErrors == {Errorf("HTTP 502", <<>>, NoErr)}

DataMaps(aliases) ==
    UNION {[D -> {NilPtr} \cup {Ptr(id) : id \in DatabaseIDs}] : D \in SUBSET aliases}

Responses(query) ==
    {[err |-> e, data |-> <<>>] : e \in GqlErrors(Aliases(query)) \cup TransportErrors}
    \cup (IF Len(query) = 0 THEN {}
          ELSE {[err |-> NoErr, data |-> d] : d \in DataMaps(Aliases(query))})

\* Values of the variables a specification does not use.
KeyIdle ==
    /\ rawKey = <<>> /\ keyForm = "canonical" /\ encodedKey = <<>>
    /\ keyID = "" /\ pkOut = NoPubKey

ResolveIdle ==
    /\ rOrg = "" /\ rNames = <<>>
    /\ rResp = [err |-> NoErr, data |-> <<>>] /\ rOut = NoLookup

InvIdle ==
    /\ pc = "idle" /\ call = [fn |-> "none"]
    /\ repositoryIDs = NilSlice /\ requests = <<>> /\ ret = NoErr

WriteIdle ==
    /\ store = <<>> /\ wLast = [kind |-> "none"]

(***************************************************************************)
(* SpecKey                                                                 *)
(***************************************************************************)
KeyStart == KeyInit /\ ResolveIdle /\ InvIdle /\ WriteIdle

KeyNext == CallNewPubKey

SpecKey == KeyStart /\ [][KeyNext]_vars

(***************************************************************************)
(* SpecResolve                                                             *)
(***************************************************************************)
ResolveInit ==
    /\ rOrg \in OrgNames
    /\ rNames \in NameLists
    /\ rResp \in Responses(BuildQuery(rOrg, rNames))
    /\ rOut = NoLookup
    /\ KeyIdle /\ InvIdle /\ WriteIdle

CallMapRepoNameToID ==
    /\ rOut.kind = "none"
    /\ rOut' = mapRepoNameToID(rOrg, rNames, rResp)
    /\ UNCHANGED <<rOrg, rNames, rResp, keyVars, invVars, writeVars>>

ResolveNext == CallMapRepoNameToID

SpecResolve == ResolveInit /\ [][ResolveNext]_vars

(***************************************************************************)
(* putOrgSecret, putRepoSecret, putSecret (http.go 66-115).                *)
(***************************************************************************)
visSelected == "selected"

Visibilities == {"all", "private", visSelected}

\* fmt.Sprintf(format, args...)
Sprintf(format, args) == [fmt |-> format, args |-> args]

\* The SecretPayload struct; a field left out of the literal has its zero
\* value ("" and the nil slice).
SecretPayload(eValue, visibility, repositories, keyId) ==
    [EncryptedValue |-> eValue, Visibility |-> visibility,
     Repositories |-> repositories, KeyID |-> keyId]

\* json.Marshal that writes every field, as if the tags had no omitempty.
MarshalNoOmitEmpty(payload) ==
    [err |-> NoErr,
     bytes |-> [encrypted_value |-> payload.EncryptedValue,
                visibility |-> payload.Visibility,
                selected_repository_ids |-> payload.Repositories.elems,
                key_id |-> payload.KeyID]]

\* json.Marshal(payload) under the struct's tags: visibility and
\* selected_repository_ids are omitted when empty (the empty string; a nil
\* or zero-length slice).  Strings and ints always serialize: err is nil.
Marshal(payload) ==
    [err |-> NoErr,
     bytes |-> [encrypted_value |-> payload.EncryptedValue]
               @@ (IF payload.Visibility # ""
                   THEN [visibility |-> payload.Visibility] ELSE <<>>)
               @@ (IF Len(payload.Repositories.elems) > 0
                   THEN [selected_repository_ids |-> payload.Repositories.elems] ELSE <<>>)
               @@ [key_id |-> payload.KeyID]]

\* The remote secret store behind client.REST: a PUT to a secret's path
\* creates the secret or replaces it, and answers with no body; the route
\* takes no other method.  A request that does not get through (network,
\* authentication, server failure) changes nothing and returns the error.
clientREST(st, req, delivered) ==
    LET key == [host |-> req.host, path |-> req.path]
    IN  IF ~delivered
        THEN [err |-> Errorf("HTTP 502", <<>>, NoErr), store |-> st]
        ELSE IF req.method = "PUT"
        THEN [err |-> NoErr,
              store |-> [k \in DOMAIN st \cup {key} |-> IF k = key THEN req.body ELSE st[k]]]
        ELSE [err |-> Errorf("HTTP 404", <<>>, NoErr), store |-> st]

\* putSecret that sends the payload with POST.
putSecretPost(host, path, payload, st, delivered) ==
    LET m == Marshal(payload)
        req == [kind |-> "REST", method |-> "POST", host |-> host, path |-> path,
                body |-> m.bytes]
        r == clientREST(st, req, delivered)
    IN  [err |-> r.err, sent |-> <<req>>, store |-> r.store]

\* putSecret: serialize, then one PUT.  The result: the returned error, the
\* requests sent, and the remote store afterwards.
putSecret(host, path, payload, st, delivered) ==
    LET m == Marshal(payload)
    IN  IF m.err # NoErr
        THEN [err |-> Errorf("failed to serialize: %w", <<>>, m.err),
              sent |-> <<>>, store |-> st]
        ELSE LET req == [kind |-> "REST", method |-> "PUT", host |-> host,
                         path |-> path, body |-> m.bytes]
                 r == clientREST(st, req, delivered)
             IN  [err |-> r.err, sent |-> <<req>>, store |-> r.store]

\* putOrgSecret that looks the names up for every visibility.
needsResolveAnyVisibility(opts) == opts.OrgName # ""

\* http.go 80: the condition under which putOrgSecret resolves the names.
needsResolve(opts) == opts.OrgName # "" /\ opts.Visibility = visSelected

\* putOrgSecret that carries on after a failed lookup.
resolveFailedIgnored(out) == FALSE

\* http.go 82: err != nil after mapRepoNameToID.
resolveFailed(out) == out.err # NoErr

\* http.go 87-93: putOrgSecret's payload and path.
orgPayload(c, ids) == SecretPayload(c.eValue, c.opts.Visibility, ids, c.pkID)

orgPath(c) == Sprintf("orgs/%s/actions/secrets/%s", <<c.opts.OrgName, c.opts.SecretName>>)

\* http.go 99-103: putRepoSecret's payload and path.
repoPayload(c) == SecretPayload(c.eValue, "", NilSlice, c.pkID)

repoPath(c) == Sprintf("repos/%s/actions/secrets/%s", <<c.repo, c.secretName>>)

(***************************************************************************)
(* Spec: one invocation of putOrgSecret or putRepoSecret.  A step is taken *)
(* at each blocking call to the client; rOrg, rNames, rResp and rOut keep  *)
(* the lookup the invocation made.                                         *)
(***************************************************************************)
Hosts == {"github.com"}

SecretNames == {"TOKEN"}

EncryptedValues == {"c2VhbGVk"}

RepoFullNames == {"acme/site"}

OrgCalls ==
    {[fn |-> "putOrgSecret", host |-> h, pkID |-> k, eValue |-> e,
      opts |-> [SecretName |-> s, OrgName |-> o, Visibility |-> v, RepositoryNames |-> ns]] :
        h \in Hosts, k \in KeyIDs, e \in EncryptedValues, s \in SecretNames,
        o \in OrgNames, v \in Visibilities, ns \in NameLists}

RepoCalls ==
    {[fn |-> "putRepoSecret", host |-> h, pkID |-> k, eValue |-> e,
      repo |-> r, secretName |-> s] :
        h \in Hosts, k \in KeyIDs, e \in EncryptedValues, r \in RepoFullNames,
        s \in SecretNames}

Init ==
    /\ pc = "start"
    /\ call \in OrgCalls \cup RepoCalls
    /\ repositoryIDs = NilSlice
    /\ requests = <<>>
    /\ ret = NoErr
    /\ store = <<>>
    /\ wLast = [kind |-> "none"]
    /\ KeyIdle /\ ResolveIdle

\* putOrgSecret, http.go 80-85: the lookup and what follows from its result.
OrgResolve ==
    /\ pc = "start"
    /\ call.fn = "putOrgSecret"
    /\ needsResolve(call.opts)
    /\ LET query == BuildQuery(call.opts.OrgName, call.opts.RepositoryNames)
       IN  \E resp \in Responses(query) :
             LET out == mapRepoNameToID(call.opts.OrgName, call.opts.RepositoryNames, resp)
             IN  /\ requests' = Append(requests, [kind |-> "GraphQL", host |-> call.host,
                                                  query |-> query])
                 /\ rOrg' = call.opts.OrgName
                 /\ rNames' = call.opts.RepositoryNames
                 /\ rResp' = resp
                 /\ rOut' = out
                 /\ IF out.kind = "panic"
                    THEN pc' = "panicked" /\ UNCHANGED <<repositoryIDs, ret>>
                    ELSE IF resolveFailed(out)
                    THEN /\ pc' = "done"
                         /\ ret' = Errorf("failed to look up IDs for repositories %v: %w",
                                          call.opts.RepositoryNames, out.err)
                         /\ UNCHANGED repositoryIDs
                    ELSE /\ pc' = "resolved"
                         /\ repositoryIDs' = out.ids
                         /\ UNCHANGED ret
    /\ UNCHANGED <<call, keyVars, writeVars>>

\* putOrgSecret, http.go 80: the condition is false and no lookup is made.
OrgSkipResolve ==
    /\ pc = "start"
    /\ call.fn = "putOrgSecret"
    /\ ~needsResolve(call.opts)
    /\ pc' = "resolved"
    /\ UNCHANGED <<call, repositoryIDs, requests, ret, keyVars, resolveVars, writeVars>>

\* putOrgSecret, http.go 87-95: build the payload and the path, putSecret.
OrgPut ==
    /\ pc = "resolved"
    /\ call.fn = "putOrgSecret"
    /\ \E delivered \in BOOLEAN :
          LET r == putSecret(call.host, orgPath(call), orgPayload(call, repositoryIDs),
                             store, delivered)
          IN  /\ requests' = requests \o r.sent
              /\ store' = r.store
              /\ ret' = r.err
    /\ pc' = "done"
    /\ UNCHANGED <<call, repositoryIDs, keyVars, resolveVars, wLast>>

\* putRepoSecret, http.go 98-105.
RepoPut ==
    /\ pc = "start"
    /\ call.fn = "putRepoSecret"
    /\ \E delivered \in BOOLEAN :
          LET r == putSecret(call.host, repoPath(call), repoPayload(call), store, delivered)
          IN  /\ requests' = requests \o r.sent
              /\ store' = r.store
              /\ ret' = r.err
    /\ pc' = "done"
    /\ UNCHANGED <<call, repositoryIDs, keyVars, resolveVars, wLast>>

Next == OrgResolve \/ OrgSkipResolve \/ OrgPut \/ RepoPut

Spec == Init /\ [][Next]_vars

(***************************************************************************)
(* SpecWrite: putSecret called again and again against one remote store.   *)
(***************************************************************************)
WritePaths ==
    {Sprintf("orgs/%s/actions/secrets/%s", <<"acme", "TOKEN">>),
     Sprintf("repos/%s/actions/secrets/%s", <<"acme/site", "TOKEN">>)}

WritePayloads ==
    {SecretPayload(e, "", NilSlice, "key-1") : e \in {"c2VhbGVk", "b3RoZXI="}}
    \cup {SecretPayload("c2VhbGVk", "all", NilSlice, "key-1"),
          SecretPayload("c2VhbGVk", visSelected, Slice(<<10, 20>>), "key-2")}

WriteInit ==
    /\ store = <<>>
    /\ wLast = [kind |-> "none"]
    /\ KeyIdle /\ ResolveIdle /\ InvIdle

CallPutSecret ==
    /\ \E h \in Hosts, path \in WritePaths, payload \in WritePayloads, delivered \in BOOLEAN :
          LET r == putSecret(h, path, payload, store, delivered)
          IN  /\ store' = r.store
              /\ wLast' = [kind |-> "call", host |-> h, path |-> path, payload |-> payload,
                           delivered |-> delivered, err |-> r.err, before |-> store,
                           repeat |-> /\ wLast.kind = "call"
                                      /\ wLast.err = NoErr
                                      /\ wLast.host = h
                                      /\ wLast.path = path
                                      /\ wLast.payload = payload]
    /\ UNCHANGED <<keyVars, resolveVars, invVars>>

WriteNext == CallPutSecret

SpecWrite == WriteInit /\ [][WriteNext]_vars

(***************************************************************************)
(* Properties of NewPubKey, under SpecKey.                                 *)
(***************************************************************************)
\* The key was decoded from a string that is valid base64.
KeyCalledOnValid == pkOut.kind # "none" /\ keyForm \in ValidKeyForms

\* C8: for every valid base64 input that decodes to 32 bytes or more,
\* NewPubKey returns a PubKey whose Key is the first 32 of the bytes that
\* were encoded (what follows them is ignored), whose ID is the keyID
\* argument and whose String() is the input string itself.
C8_KeyIsFirst32Bytes ==
    (KeyCalledOnValid /\ Len(rawKey) >= KeyLen) =>
        /\ pkOut.kind = "ok"
        /\ pkOut.Key = SubSeq(rawKey, 1, KeyLen)
        /\ pkOut.ID = keyID
        /\ String(pkOut) = encodedKey

\* A key longer than 32 bytes was decoded and cut to its first 32.
C8_Witness ==
    /\ pkOut.kind = "ok"
    /\ keyForm = "canonical"
    /\ Len(rawKey) > KeyLen
    /\ rawKey[KeyLen + 1] # 0
    /\ pkOut.Key = SubSeq(rawKey, 1, KeyLen)

\* C9: for every valid base64 input that decodes to n < 32 bytes (n = 0
\* included), NewPubKey returns normally, with the n decoded bytes first in
\* Key and zeros after them: no error, no abort.
C9_ShortKeyZeroPadded ==
    (KeyCalledOnValid /\ Len(rawKey) < KeyLen) =>
        /\ pkOut.kind = "ok"
        /\ pkOut.Key = [i \in 1..KeyLen |-> IF i <= Len(rawKey) THEN rawKey[i] ELSE 0]

(***************************************************************************)
(* Properties of mapRepoNameToID, under SpecResolve.                       *)
(***************************************************************************)
Looked == rOut.kind # "none"

\* The NOT_FOUND entries of the response's structured error list.
ReportedNotFound ==
    IF IsGqlErr(rResp.err)
    THEN {i \in 1..Len(rResp.err.Errors) : rResp.err.Errors[i].Type = "NOT_FOUND"}
    ELSE {}

\* The response holds an identifier for every requested name.
ResponseComplete ==
    /\ rResp.err = NoErr
    /\ \A i \in 1..Len(rNames) :
          rNames[i] \in DOMAIN rResp.data /\ ~rResp.data[rNames[i]].nil

\* C1: when the response reports a requested name as not found (an error
\* entry of kind NOT_FOUND whose path carries the name), mapRepoNameToID
\* fails with "could not find <org>/<name>", the name being the one at the
\* head of the path of the first such entry, and returns no identifier list.
C1_NotFoundFailsWithName ==
    (Looked /\ ReportedNotFound # {}) =>
        LET first == CHOOSE i \in ReportedNotFound : \A j \in ReportedNotFound : i <= j
        IN  /\ rOut.kind = "return"
            /\ rOut.ids = NilSlice
            /\ rOut.err.fmt = "could not find %s/%s"
            /\ rOut.err.args = <<rOrg, rResp.err.Errors[first].Path[1]>>

\* ["a","b","c"] was asked for, "b" alone was reported not found, and the
\* call failed naming "b" with no identifier list.
C1_Witness ==
    /\ Looked
    /\ rNames = <<"a", "b", "c">>
    /\ Cardinality(ReportedNotFound) = 1
    /\ rOut.ids = NilSlice
    /\ rOut.err.fmt = "could not find %s/%s"
    /\ rOut.err.args = <<rOrg, "b">>

\* C2: when the lookup succeeds and the response holds an identifier for
\* every requested name, the result has the length of the input and its
\* i-th element is the identifier the response holds for the i-th name,
\* repeated names included.
C2_ResultFollowsInputOrder ==
    (Looked /\ ResponseComplete) =>
        /\ rOut.kind = "return"
        /\ rOut.err = NoErr
        /\ ~rOut.ids.nil
        /\ Len(rOut.ids.elems) = Len(rNames)
        /\ \A i \in 1..Len(rNames) :
              rOut.ids.elems[i] = rResp.data[rNames[i]].DatabaseID

\* A request that repeats a name and lists the names against the order of
\* their identifiers came back in the order of the request.
C2_Witness ==
    /\ Looked
    /\ rNames = <<"b", "a", "b">>
    /\ ResponseComplete
    /\ rOut.ids = Slice(<<20, 10, 20>>)

\* C5: a failed lookup is classified by the structured error list: with a
\* NOT_FOUND entry in it the result is "could not find <org>/<name>", never
\* the generic failure, whatever other entries the list holds; a failure
\* with no NOT_FOUND entry (or one that is no structured error response) is
\* the generic "failed to look up repositories" wrapping the original error.
C5_NotFoundBeforeGeneric ==
    (Looked /\ rResp.err # NoErr) =>
        /\ rOut.kind = "return"
        /\ rOut.ids = NilSlice
        /\ IF ReportedNotFound # {}
           THEN rOut.err.fmt = "could not find %s/%s"
           ELSE /\ rOut.err.fmt = "failed to look up repositories: %w"
                /\ rOut.err.cause = rResp.err

\* A list whose first entry is of another kind and whose second is
\* NOT_FOUND was classified as not found.
C5_Witness ==
    /\ Looked
    /\ IsGqlErr(rResp.err)
    /\ Len(rResp.err.Errors) = 2
    /\ rResp.err.Errors[1].Type = "FORBIDDEN"
    /\ rResp.err.Errors[2].Type = "NOT_FOUND"
    /\ rOut.err.fmt = "could not find %s/%s"

\* C10: when the call returns no error but the response has no entry for a
\* requested name, mapRepoNameToID returns successfully with 0 at that
\* name's position and the resolved identifiers at the others.
C10_MissingEntryYieldsZero ==
    (Looked /\ rResp.err = NoErr /\ \E i \in 1..Len(rNames) : rNames[i] \notin DOMAIN rResp.data) =>
        /\ rOut.kind = "return"
        /\ rOut.err = NoErr
        /\ Len(rOut.ids.elems) = Len(rNames)
        /\ \A i \in 1..Len(rNames) :
              rOut.ids.elems[i] = IF rNames[i] \in DOMAIN rResp.data
                                  THEN rResp.data[rNames[i]].DatabaseID
                                  ELSE 0

(***************************************************************************)
(* Properties of putOrgSecret and putRepoSecret, under Spec.               *)
(***************************************************************************)
\* Positions in requests of the name-resolution requests and of the writes.
LookupsSent == {i \in 1..Len(requests) : requests[i].kind = "GraphQL"}

WritesSent == {i \in 1..Len(requests) : requests[i].kind = "REST"}

OrgSelected == call.fn = "putOrgSecret" /\ call.opts.Visibility = "selected"

LookupFailed == rOut.kind = "panic" \/ (rOut.kind = "return" /\ rOut.err # NoErr)

\* C3: the stages run in the order resolve-names, build-payload, write, and
\* the name-resolution request is sent if and only if the scope is an
\* organization with visibility "selected": a repository-scoped call, or an
\* organization call with another visibility, sends none before its write,
\* even when repository names were supplied.
C3_ResolveOnlyWhenSelected ==
    /\ \A i \in LookupsSent, j \in WritesSent : i < j
    /\ pc # "start" => (LookupsSent # {} <=> OrgSelected)
    /\ WritesSent # {} => pc = "done"
    /\ \A j \in WritesSent :
          /\ requests[j].method = "PUT"
          /\ LookupsSent # {} => repositoryIDs = rOut.ids

\* An organization call with visibility "selected" sent its lookup and then
\* its write.
C3_Witness ==
    /\ pc = "done"
    /\ OrgSelected
    /\ Len(requests) = 2
    /\ requests[1].kind = "GraphQL"
    /\ requests[2].kind = "REST"

\* C4: a failed stage ends the invocation: after a failed name resolution
\* (not found, transport failure) or a failed serialization no PUT is ever
\* sent, and an invocation sends at most one name-resolution request and at
\* most one PUT.
C4_FailureIsTerminal ==
    /\ LookupFailed => WritesSent = {}
    /\ (LookupFailed /\ rOut.kind = "return") =>
          /\ pc = "done"
          /\ ret.fmt = "failed to look up IDs for repositories %v: %w"
          /\ ret.cause = rOut.err
    /\ ret.fmt = "failed to serialize: %w" => WritesSent = {}
    /\ ret # NoErr => pc = "done"
    /\ Cardinality(LookupsSent) <= 1
    /\ Cardinality(WritesSent) <= 1

\* A lookup that reported a repository as not found ended the invocation
\* with the lookup as its only request.
C4_Witness ==
    /\ pc = "done"
    /\ rOut.err.fmt = "could not find %s/%s"
    /\ ret.fmt = "failed to look up IDs for repositories %v: %w"
    /\ Len(requests) = 1
    /\ requests[1].kind = "GraphQL"

C7_WriteIsIdempotentUpsert ==
    (wLast.kind = "call" /\ wLast.delivered) =>
        LET key == [host |-> wLast.host, path |-> wLast.path]
        IN  /\ wLast.err = NoErr
            /\ key \in DOMAIN store
            /\ store[key] = Marshal(wLast.payload).bytes
            /\ DOMAIN store = DOMAIN wLast.before \cup {key}
            /\ \A k \in DOMAIN wLast.before : k # key => store[k] = wLast.before[k]
            /\ wLast.repeat => store = wLast.before

\* The same write was made twice in a row, next to another secret, and the
\* second left the store as it was.
C7_Witness ==
    /\ wLast.kind = "call"
    /\ wLast.delivered
    /\ wLast.repeat
    /\ wLast.err = NoErr
    /\ Cardinality(DOMAIN store) = 2
    /\ store = wLast.before

====
